---- MODULE Spec2Model ----
(***************************************************************************)
(* Model of src/app.py: the /plan_route handler, the three provider        *)
(* clients (get_route, get_traffic_flow, get_elevation_data) and           *)
(* rank_routes.                                                            *)
(*                                                                         *)
(* One planning request is followed from the arrival of its body to its    *)
(* HTTP response.  The external providers are nondeterministic: every call *)
(* draws its outcome from a small set of outcomes.                         *)
(*                                                                         *)
(* Number representation.  The code computes with Python numbers           *)
(*   traffic_flow = currentSpeed / 20   (or 3)                             *)
(*   safety_score = 0.4*traffic_flow + 0.3*elevation_gain                  *)
(*                  + 0.2*distance + 0.1*duration                          *)
(* The model keeps integers: traffic_flow is stored times SpeedDivisor     *)
(* (20) and safety_score is stored times 10*SpeedDivisor (200), the        *)
(* weights being tenths (4, 3, 2, 1).                                      *)
(***************************************************************************)
EXTENDS Integers, Sequences, FiniteSets, TLC

\* Largest number of alternatives the directions provider returns.
MaxRoutes == 2

\* src/app.py:83  "... / 20 if traffic_data else 3"
SpeedDivisor == 20
FallbackTrafficFactor == 3
\* src/app.py:87-90  the weights, in tenths
TrafficWeight == 4
ElevationWeight == 3
DistanceWeight == 2
DurationWeight == 1
\* src/app.py:117,123,127,132,147  HTTP status codes (200 is jsonify's default)
StatusOK == 200
StatusBadRequest == 400
StatusServerError == 500

\* currentSpeed values the traffic provider reports (km/h); 40/20 differs from
\* the fallback factor
Speeds == {40}
\* ascent values the elevation provider reports (m); never 0, so that a reading
\* differs from the fallback
Ascents == {1}

-----------------------------------------------------------------------------
(* Request bodies: what request.get_json() gives.                          *)

FieldValues ==
    { [kind |-> "missing", val |-> ""],      \* key not in the object
      [kind |-> "number",  val |-> ""],      \* a JSON value that is no string
      [kind |-> "string",  val |-> ""],      \* the empty string
      [kind |-> "string",  val |-> "X"] }    \* a place description

Missing == [kind |-> "missing", val |-> ""]

\* "end" is never the empty string here: the code treats the two keys alike.
EndValues == FieldValues \ { [kind |-> "string", val |-> ""] }

\* a body get_json() cannot decode, JSON null, JSON objects
RequestBodies ==
    { [shape |-> s, start |-> Missing, end |-> Missing] : s \in {"unparseable", "null"} }
    \cup
    { [shape |-> "object", start |-> s, end |-> e] : s \in FieldValues, e \in EndValues }

NoBody == [shape |-> "null", start |-> Missing, end |-> Missing]

-----------------------------------------------------------------------------
(* Candidate routes as the directions provider returns them.               *)

LegA == [distance |-> 1, duration |-> 3]
LegB == [distance |-> 2, duration |-> 1]

\* no legs at all, one leg, two legs (first legs LegA and LegB weigh the same:
\* 2*1 + 3 = 2*2 + 1)
LegLists == { <<>>, <<LegA>>, <<LegB, LegA>> }

\* id is the candidate's position in the provider's list: it stands for the
\* identity of the dict object and its opaque provider metadata.
RouteLists(n) ==
    { [k \in 1..n |-> [id |-> k, legs |-> f[k]]] : f \in [1..n -> LegLists] }

DirectionsOutcomes ==
    { [raises |-> TRUE, routes |-> <<>>] }
    \cup
    { [raises |-> FALSE, routes |-> r] : r \in UNION { RouteLists(n) : n \in 0..MaxRoutes } }

TrafficOutcomes ==
    { [kind |-> k, speed |-> 0] :
        k \in {"timeout", "http_error", "not_json", "empty_json", "no_flow_key"} }
    \cup
    { [kind |-> "ok", speed |-> s] : s \in Speeds }

ElevationOutcomes ==
    { [kind |-> k, ascent |-> 0] :
        k \in {"timeout", "http_error", "transport_error", "no_features_key", "empty_features"} }
    \cup
    { [kind |-> "ok", ascent |-> a] : a \in Ascents }

TrafficNotCalled == [kind |-> "not_called", speed |-> 0]
ElevationNotCalled == [kind |-> "not_called", ascent |-> 0]

-----------------------------------------------------------------------------
(* The clients.                                                            *)

NoneDirections == [none |-> TRUE, routes |-> <<>>]

\* A plausible slip: the provider's result handed on as it is.
GetRouteKeepEmpty(o) ==
    IF o.raises THEN NoneDirections ELSE [none |-> FALSE, routes |-> o.routes]

\* get_route: None on any exception and on a falsy (empty) result.
GetRoute(o) ==
    IF o.raises
    THEN NoneDirections
    ELSE IF o.routes # <<>> THEN [none |-> FALSE, routes |-> o.routes]
                            ELSE NoneDirections

\* get_traffic_flow: requests.get / raise_for_status / response.json() inside
\* try; any exception gives None, otherwise the decoded JSON value.
GetTrafficFlow(o) ==
    IF o.kind \in {"timeout", "http_error", "not_json"}
    THEN [none |-> TRUE,  empty |-> FALSE, hasFlow |-> FALSE, speed |-> 0]
    ELSE [none |-> FALSE, empty |-> (o.kind = "empty_json"),
          hasFlow |-> (o.kind = "ok"), speed |-> o.speed]

\* Python truth value of traffic_data: None and {} are falsy.
Truthy(traffic_data) == ~traffic_data.none /\ ~traffic_data.empty

\* A plausible slip: the traffic fallback reused for the elevation fallback.
GetElevationDataWrongDefault(o) ==
    IF o.kind = "ok" THEN o.ascent ELSE FallbackTrafficFactor

\* get_elevation_data: everything from the request to the subscripting is
\* inside try, and the handler returns 0.
GetElevationData(o) ==
    IF o.kind \in {"timeout", "http_error", "transport_error"}
    THEN 0                                     \* except: return 0
    ELSE IF o.kind = "no_features_key"
         THEN 0                                \* ... if 'features' in data else 0
         ELSE IF o.kind = "empty_features"
              THEN 0                           \* IndexError, except: return 0
              ELSE o.ascent

-----------------------------------------------------------------------------
(* rank_routes.                                                            *)

\* A plausible slip: the weights of distance and duration exchanged.
SafetyScoreSwapped(traffic_flow, elevation_gain, distance, duration) ==
    TrafficWeight * traffic_flow
    + SpeedDivisor * (ElevationWeight * elevation_gain
                      + DurationWeight * distance + DistanceWeight * duration)

\* safety_score times 10*SpeedDivisor; traffic_flow is already times SpeedDivisor.
SafetyScore(traffic_flow, elevation_gain, distance, duration) ==
    TrafficWeight * traffic_flow
    + SpeedDivisor * (ElevationWeight * elevation_gain
                      + DistanceWeight * distance + DurationWeight * duration)

\* traffic_flow times SpeedDivisor (line 83); only called when no KeyError.
TrafficFlow(traffic_data) ==
    IF Truthy(traffic_data) THEN traffic_data.speed
                            ELSE FallbackTrafficFactor * SpeedDivisor

NoEntry == [route |-> [id |-> 0, legs |-> <<>>], safety_score |-> 0,
            traffic_flow |-> 0, elevation_gain |-> 0]

\* The body of the for loop for one route, the providers answering t and e:
\* whether it raised, which calls were made, and the entry appended.
RouteAttempt(route, t, e) ==
    IF Len(route.legs) = 0
    THEN \* route['legs'][0] raises before any call
         [raised |-> TRUE, traffic |-> TrafficNotCalled,
          elevation |-> ElevationNotCalled, entry |-> NoEntry]
    ELSE LET leg == route.legs[1]
             traffic_data == GetTrafficFlow(t)
         IN  IF Truthy(traffic_data) /\ ~traffic_data.hasFlow
             THEN \* traffic_data['flowSegmentData'] raises KeyError
                  [raised |-> TRUE, traffic |-> t,
                   elevation |-> ElevationNotCalled, entry |-> NoEntry]
             ELSE LET traffic_flow == TrafficFlow(traffic_data)
                      elevation_gain == GetElevationData(e)
                  IN  [raised |-> FALSE, traffic |-> t, elevation |-> e,
                       entry |-> [route |-> route,
                                  safety_score |->
                                      SafetyScore(traffic_flow, elevation_gain,
                                                  leg.distance, leg.duration),
                                  traffic_flow |-> traffic_flow,
                                  elevation_gain |-> elevation_gain]]

\* A plausible slip: an exception ends the loop.
BreakIndex(idx, raised, n) == IF raised THEN n + 1 ELSE idx + 1

\* The index of the next route: "continue" after an exception, like after an append.
NextIndex(idx, raised, n) == idx + 1

RECURSIVE InsertBeforeEqual(_, _)
\* A plausible slip: an unstable insertion, equal keys end up reversed.
InsertBeforeEqual(sorted, x) ==
    IF sorted = <<>>
    THEN <<x>>
    ELSE IF Head(sorted).safety_score < x.safety_score
         THEN <<Head(sorted)>> \o InsertBeforeEqual(Tail(sorted), x)
         ELSE <<x>> \o sorted

RECURSIVE InsertByScore(_, _)
\* x behind every element whose key is not greater: list.sort is stable.
InsertByScore(sorted, x) ==
    IF sorted = <<>>
    THEN <<x>>
    ELSE IF Head(sorted).safety_score <= x.safety_score
         THEN <<Head(sorted)>> \o InsertByScore(Tail(sorted), x)
         ELSE <<x>> \o sorted

\* A plausible slip: the sort left out.
Unsorted(s) == s

RECURSIVE SortBySafetyScore(_)
\* ranked_routes.sort(key=lambda x: x["safety_score"])
SortBySafetyScore(s) ==
    IF s = <<>>
    THEN <<>>
    ELSE InsertByScore(SortBySafetyScore(SubSeq(s, 1, Len(s) - 1)), s[Len(s)])

-----------------------------------------------------------------------------
(* plan_route's responses.                                                 *)

NoRoute == [id |-> 0, legs |-> <<>>]

ErrorResponse(status, message) ==
    [status |-> status, error |-> message, safest_route |-> NoRoute,
     eta |-> 0, distance |-> 0, traffic_flow |-> 0, elevation_gain |-> 0]

NoResponse == ErrorResponse(0, "")

SuccessResponse(top) ==
    [status |-> StatusOK, error |-> "", safest_route |-> top.route,
     eta |-> top.route.legs[1].duration,
     distance |-> top.route.legs[1].distance,
     traffic_flow |-> top.traffic_flow,
     elevation_gain |-> top.elevation_gain]

\* A plausible slip: the emptiness test left out, ranked_routes[0] raises.
PlanResponseUnchecked(ranked) ==
    IF ranked = <<>>
    THEN ErrorResponse(StatusServerError, "An internal server error occurred")
    ELSE SuccessResponse(ranked[1])

\* A plausible slip: the last entry taken for the best one.
PlanResponseLast(ranked) ==
    IF ranked = <<>>
    THEN ErrorResponse(StatusServerError, "No routes available")
    ELSE SuccessResponse(ranked[Len(ranked)])

\* Lines 131-144.
PlanResponse(ranked) ==
    IF ranked = <<>>
    THEN ErrorResponse(StatusServerError, "No routes available")
    ELSE SuccessResponse(ranked[1])

-----------------------------------------------------------------------------
VARIABLES
    pc,             \* position of the handler
    data,           \* the request body
    gmapsCalls,     \* the (start, end) pairs handed to gmaps.directions
    providerResult, \* what gmaps.directions did for this request
    directions,     \* plan_route's local: the value get_route returned
    i,              \* rank_routes: index of the route the loop is at
    ranked_routes,  \* rank_routes' list, then plan_route's local
    trafficLog,     \* per route, the outcome of its get_traffic_flow call
    elevationLog,   \* per route, the outcome of its get_elevation_data call
    response        \* the HTTP response

vars == <<pc, data, gmapsCalls, providerResult, directions, i, ranked_routes,
          trafficLog, elevationLog, response>>

Init ==
    /\ pc = "request"
    /\ data = NoBody
    /\ gmapsCalls = <<>>
    /\ providerResult = [raises |-> FALSE, routes |-> <<>>]
    /\ directions = NoneDirections
    /\ i = 0
    /\ ranked_routes = <<>>
    /\ trafficLog = <<>>
    /\ elevationLog = <<>>
    /\ response = NoResponse

\* Lines 114-123 and 145-147: the body is read and validated.
PlanRouteValidate ==
    /\ pc = "request"
    /\ \E body \in RequestBodies :
        /\ data' = body
        /\ IF body.shape = "unparseable"
           THEN \* get_json() raises, caught by the handler's except
                /\ response' = ErrorResponse(StatusServerError,
                                             "An internal server error occurred")
                /\ pc' = "done"
           ELSE IF \/ body.shape = "null"
                   \/ (body.start.kind = "missing" /\ body.end.kind = "missing")
                   \/ body.start.kind = "missing"
                   \/ body.end.kind = "missing"
                THEN /\ response' = ErrorResponse(StatusBadRequest,
                                        "Invalid input: 'start' and 'end' are required")
                     /\ pc' = "done"
                ELSE IF body.start.kind # "string" \/ body.end.kind # "string"
                     THEN /\ response' = ErrorResponse(StatusBadRequest,
                                        "Invalid input: 'start' and 'end' must be strings")
                          /\ pc' = "done"
                     ELSE /\ response' = response
                          /\ pc' = "get_route"
    /\ UNCHANGED <<gmapsCalls, providerResult, directions, i, ranked_routes,
                   trafficLog, elevationLog>>

\* Lines 125-127 with get_route (29-36).
PlanRouteGetRoute ==
    /\ pc = "get_route"
    /\ \E o \in DirectionsOutcomes :
        /\ gmapsCalls' = Append(gmapsCalls, <<data.start.val, data.end.val>>)
        /\ providerResult' = o
        /\ directions' = GetRoute(o)
        /\ IF directions'.none \/ directions'.routes = <<>>
           THEN /\ response' = ErrorResponse(StatusServerError, "Failed to fetch route data")
                /\ pc' = "done"
                /\ i' = i
           ELSE /\ response' = response
                /\ pc' = "rank"
                /\ i' = 1
    /\ UNCHANGED <<data, ranked_routes, trafficLog, elevationLog>>

\* rank_routes, one route per step: lines 76-101 for the route at index i.
\* The step of the last route goes on without interruption through the sort
\* and the return (103-104) and the rest of plan_route (131-144).
RankRoutesStep ==
    /\ pc = "rank"
    /\ i <= Len(directions.routes)
    /\ \E t \in TrafficOutcomes, e \in ElevationOutcomes :
        LET a == RouteAttempt(directions.routes[i], t, e)
            n == Len(directions.routes)
            appended == IF a.raised THEN ranked_routes
                                    ELSE Append(ranked_routes, a.entry)
        IN  /\ trafficLog' = Append(trafficLog, a.traffic)
            /\ elevationLog' = Append(elevationLog, a.elevation)
            /\ i' = NextIndex(i, a.raised, n)
            /\ IF i' > n
               THEN /\ ranked_routes' = SortBySafetyScore(appended)
                    /\ response' = PlanResponse(ranked_routes')
                    /\ pc' = "done"
               ELSE /\ ranked_routes' = appended
                    /\ response' = response
                    /\ pc' = pc
    /\ UNCHANGED <<data, gmapsCalls, providerResult, directions>>

Next ==
    \/ PlanRouteValidate
    \/ PlanRouteGetRoute
    \/ RankRoutesStep

Spec == Init /\ [][Next]_vars

-----------------------------------------------------------------------------
(* Vocabulary of the properties, in terms of what the providers answered.  *)

N == Len(directions.routes)

\* rank_routes has run and returned
RankFinished == pc = "done" /\ i > 0

\* the positions of candidate k in ranked_routes
Positions(k) == { p \in 1..Len(ranked_routes) : ranked_routes[p].route.id = k }

\* candidate k raised inside the loop body: it has no first leg, or its
\* traffic answer is a JSON object without flowSegmentData
Raised(k) ==
    \/ Len(directions.routes[k].legs) = 0
    \/ (k <= Len(trafficLog) /\ trafficLog[k].kind = "no_flow_key")

\* 20 * (currentSpeed / 20) with a reading, 20 * 3 without
ExpectedTraffic(k) ==
    IF trafficLog[k].kind = "ok" THEN trafficLog[k].speed ELSE 60

ExpectedGain(k) ==
    IF elevationLog[k].kind = "ok" THEN elevationLog[k].ascent ELSE 0

\* 200 * (0.4*factor + 0.3*gain + 0.2*distance + 0.1*duration)
ExpectedScore(k) ==
    4 * ExpectedTraffic(k) + 60 * ExpectedGain(k)
    + 40 * directions.routes[k].legs[1].distance
    + 20 * directions.routes[k].legs[1].duration

UpstreamUnavailable == ErrorResponse(500, "Failed to fetch route data")
NoViableRoute == ErrorResponse(500, "No routes available")

-----------------------------------------------------------------------------
\* C1: a decoded request whose start or end is missing, is no string or is
\* the empty string never reaches the directions provider and is answered
\* with status 400.
C1_InvalidInputRejected ==
    (/\ pc # "request"
     /\ data.shape # "unparseable"
     /\ \/ data.start.kind # "string"
        \/ data.end.kind # "string"
        \/ data.start.val = ""
        \/ data.end.val = "")
    => /\ gmapsCalls = <<>>
       /\ pc = "done" => response.status = 400

\* C2: every candidate whose traffic fetch ended in a timeout, a non-2xx
\* status or a malformed payload is in ranked_routes with traffic factor 3,
\* and the request does not fail.
C2_TrafficFailureAbsorbed ==
    \A k \in 1..Len(trafficLog) :
        (/\ Len(directions.routes[k].legs) > 0
         /\ trafficLog[k].kind \in {"timeout", "http_error", "not_json",
                                    "empty_json", "no_flow_key"})
        => /\ \E p \in Positions(k) : ranked_routes[p].traffic_flow = 60
           /\ pc = "done" => response.status = 200

\* C3: when rank_routes has returned and exactly one of the N candidates
\* raised, ranked_routes has N-1 entries, one for each other candidate, with
\* the score, traffic factor and elevation gain that follow from that
\* candidate's own leg and provider answers.
C3_OneFailureDropsOne ==
    (/\ RankFinished
     /\ Cardinality({ k \in 1..N : Raised(k) }) = 1)
    => /\ Len(ranked_routes) = N - 1
       /\ \A k \in 1..N :
            ~Raised(k) =>
                /\ Cardinality(Positions(k)) = 1
                /\ \A p \in Positions(k) :
                    /\ ranked_routes[p].route = directions.routes[k]
                    /\ ranked_routes[p].safety_score = ExpectedScore(k)
                    /\ ranked_routes[p].traffic_flow = ExpectedTraffic(k)
                    /\ ranked_routes[p].elevation_gain = ExpectedGain(k)

\* C3 witness: the first of two candidates raised and the second survived.
C3_Witness ==
    /\ RankFinished
    /\ N = 2
    /\ Len(directions.routes[1].legs) = 0
    /\ Len(ranked_routes) = 1
    /\ ranked_routes[1].route.id = 2

\* C4: the list rank_routes returns is ascending in safety_score.
C4_RankSorted ==
    RankFinished =>
        \A p \in 1..(Len(ranked_routes) - 1) :
            ranked_routes[p].safety_score <= ranked_routes[p + 1].safety_score

\* C4 witness: the second candidate scored strictly better and comes first.
C4_Witness ==
    /\ RankFinished
    /\ Len(ranked_routes) = 2
    /\ ranked_routes[1].route.id = 2
    /\ ranked_routes[2].route.id = 1
    /\ ranked_routes[1].safety_score < ranked_routes[2].safety_score

\* C5: once the directions provider has raised or returned an empty list,
\* get_route has returned None, the response is the 500 "Failed to fetch
\* route data" in both cases, and no traffic or elevation call was made.
C5_UpstreamUnavailable ==
    (/\ gmapsCalls # <<>>
     /\ providerResult.raises \/ providerResult.routes = <<>>)
    => /\ directions.none
       /\ pc = "done"
       /\ response = UpstreamUnavailable
       /\ trafficLog = <<>>
       /\ elevationLog = <<>>

\* C5 witness: the provider answered a valid request with an empty list.
C5_Witness ==
    /\ gmapsCalls = << <<"X", "X">> >>
    /\ ~providerResult.raises
    /\ providerResult.routes = <<>>
    /\ response.error = "Failed to fetch route data"

\* C6: when the provider returned a non-empty list and every candidate
\* raised, rank_routes returns the empty list and the response is the 500
\* "No routes available", which is not the UpstreamUnavailable response; a
\* 200 response implies a candidate that was scored.
C6_NoViableRoute ==
    /\ (/\ RankFinished
        /\ Len(trafficLog) = N
        /\ \A k \in 1..N : Raised(k))
       => /\ ranked_routes = <<>>
          /\ response = NoViableRoute
          /\ response # UpstreamUnavailable
    /\ response.status = 200 =>
          \E k \in 1..N : ~Raised(k) /\ Positions(k) # {}

\* C6 witness: two candidates without legs, answered with "No routes available".
C6_Witness ==
    /\ pc = "done"
    /\ N = 2
    /\ \A k \in 1..N : Len(directions.routes[k].legs) = 0
    /\ response.error = "No routes available"

\* C7: a 200 response is built from a scored candidate of minimal score:
\* safest_route is that candidate, eta and distance are its first leg's
\* duration and distance, traffic_flow and elevation_gain are the values its
\* score was computed from.
C7_ResponseFromBest ==
    response.status = 200 =>
        \E k \in 1..N :
            /\ ~Raised(k)
            /\ response.safest_route = directions.routes[k]
            /\ response.eta = directions.routes[k].legs[1].duration
            /\ response.distance = directions.routes[k].legs[1].distance
            /\ response.traffic_flow = ExpectedTraffic(k)
            /\ response.elevation_gain = ExpectedGain(k)
            /\ \A j \in 1..N : ~Raised(j) => ExpectedScore(k) <= ExpectedScore(j)

\* C7 witness: the response is built from the second candidate, which scored
\* strictly better than the first.
C7_Witness ==
    /\ response.status = 200
    /\ Len(ranked_routes) = 2
    /\ response.safest_route.id = 2
    /\ ranked_routes[1].safety_score < ranked_routes[2].safety_score

\* C8: every candidate whose elevation fetch failed (timeout, non-2xx,
\* transport error) or whose answer has no features is in ranked_routes with
\* elevation gain 0.
C8_ElevationFailureAbsorbed ==
    \A k \in 1..Len(elevationLog) :
        elevationLog[k].kind \in {"timeout", "http_error", "transport_error",
                                  "no_features_key", "empty_features"}
        => /\ Positions(k) # {}
           /\ \A p \in Positions(k) : ranked_routes[p].elevation_gain = 0

\* C8 witness: one candidate's elevation fetch timed out, the other's answer
\* had an empty feature list, and both are ranked.
C8_Witness ==
    /\ pc = "done"
    /\ Len(elevationLog) = 2
    /\ elevationLog[1].kind = "timeout"
    /\ elevationLog[2].kind = "empty_features"
    /\ Len(ranked_routes) = 2

\* C9: every entry's safety_score is 0.4*factor + 0.3*gain + 0.2*distance +
\* 0.1*duration of its own first leg and provider answers, the factor being
\* currentSpeed/20 with a traffic reading and 3 without; entries with the
\* same four inputs have the same score.
C9_ScoreFormula ==
    /\ \A p \in 1..Len(ranked_routes) :
        LET k == ranked_routes[p].route.id
        IN  /\ ranked_routes[p].traffic_flow = ExpectedTraffic(k)
            /\ ranked_routes[p].safety_score = ExpectedScore(k)
    /\ \A p, q \in 1..Len(ranked_routes) :
        (/\ ranked_routes[p].traffic_flow = ranked_routes[q].traffic_flow
         /\ ranked_routes[p].elevation_gain = ranked_routes[q].elevation_gain
         /\ ranked_routes[p].route.legs[1] = ranked_routes[q].route.legs[1])
        => ranked_routes[p].safety_score = ranked_routes[q].safety_score

\* C9 witness: one entry scored with a traffic reading, one with the fallback,
\* with legs of different distance and duration.
C9_Witness ==
    /\ pc = "done"
    /\ Len(ranked_routes) = 2
    /\ trafficLog[1].kind = "ok"
    /\ trafficLog[2].kind = "timeout"
    /\ directions.routes[1].legs[1] # directions.routes[2].legs[1]

\* C10: entries of equal safety_score are in the order of the provider's
\* list, and the route of a 200 response is the earliest-listed candidate
\* among those of minimal score.
C10_StableRanking ==
    RankFinished =>
        /\ \A p, q \in 1..Len(ranked_routes) :
            (p < q /\ ranked_routes[p].safety_score = ranked_routes[q].safety_score)
            => ranked_routes[p].route.id < ranked_routes[q].route.id
        /\ response.status = 200 =>
            \A p \in 1..Len(ranked_routes) :
                (\A q \in 1..Len(ranked_routes) :
                    ranked_routes[p].safety_score <= ranked_routes[q].safety_score)
                => response.safest_route.id <= ranked_routes[p].route.id

\* C10 witness: two candidates with different first legs tie, and the response
\* carries the first.
C10_Witness ==
    /\ response.status = 200
    /\ Len(ranked_routes) = 2
    /\ ranked_routes[1].safety_score = ranked_routes[2].safety_score
    /\ directions.routes[1].legs[1] # directions.routes[2].legs[1]
    /\ response.safest_route.id = 1

====
